---- MODULE Spec2Model ----
(***************************************************************************)
(* OpenBookMarket, the Jupiter Amm adapter of lib/client/src/jup.rs: the   *)
(* market view built by from_keyed_account, refreshed by update, and read  *)
(* by quote and get_swap_and_account_metas.                                *)
(***************************************************************************)
EXTENDS Integers, Sequences, FiniteSets, TLC

VARIABLES market, related_accounts, bids, asks, event_heap, oracle_price,
          timestamp, ret, first_quote

vars == <<market, related_accounts, bids, asks, event_heap, oracle_price,
          timestamp, ret, first_quote>>

\* The fields quote() and get_swap_and_account_metas() read (struct OpenBookMarket).
view == <<market, bids, asks, event_heap, oracle_price, timestamp>>

(***************************************************************************)
(* Bounds of the model.                                                    *)
(***************************************************************************)
\* Longest book side that an account blob decodes to.
MaxOrders == 2
\* Largest slot a clock blob carries.
MaxSlot == 1
\* Largest unix timestamp a clock blob carries.
MaxTs == 1

(***************************************************************************)
(* Values.                                                                 *)
(***************************************************************************)
Min(a, b) == IF a <= b THEN a ELSE b

CeilDiv(a, b) == (a + b - 1) \div b

\* Option<T>
None == [some |-> FALSE, v |-> 0]
Some(x) == [some |-> TRUE, v |-> x]

\* NonZeroPubkeyOption: the all-zero key stands for "unset".
NoKey == "11111111"
OracleKeys == {"orcA", "orcB"}

\* i64::MAX, narrowed to 31 bits so that every product stays within TLC's
\* integers; no book of the model comes near it.
I64_MAX == 2^30

\* A u64 amount, split into its top bit (hi) and its low 63 bits (lo).
U64(hi, lo) == [hi |-> hi, lo |-> lo]

\* i64::try_from(u64): fails exactly when the top bit is set.
I64TryFrom(x) == IF x.hi = 1 THEN [ok |-> FALSE, v |-> 0] ELSE [ok |-> TRUE, v |-> x.lo]

\* A resting order: maker, price and quantity in lots, expiry (0: none) and
\* oracle peg-limit band (0: not peg-limited).
Order(o, p, q, e, b) ==
    [owner |-> o, price_lots |-> p, quantity |-> q, expiry |-> e, band |-> b]

\* Resting asks, best (lowest) price first.
AskCatalogue ==
    << Order("m1", 2, 1, 0, 0), Order("m2", 3, 2, 1, 0),
       Order("m1", 10, 5, 0, 0), Order("m3", 12, 4, 0, 2) >>

\* Resting bids, best (highest) price first.
BidCatalogue ==
    << Order("m2", 9, 3, 0, 0), Order("m1", 4, 2, 0, 6), Order("m2", 1, 5, 1, 0) >>

\* The strictly increasing index sequences of length at most n into 1..len.
RECURSIVE Picks(_, _, _)
Picks(from, len, n) ==
    IF n = 0 \/ from > len THEN {<< >>}
    ELSE {<< >>} \cup
         UNION { { <<i>> \o rest : rest \in Picks(i + 1, len, n - 1) } : i \in from..len }

\* The book sides of at most MaxOrders orders, each keeping the catalogue's order.
BooksOf(cat) ==
    { [k \in 1..Len(p) |-> cat[p[k]]] : p \in Picks(1, Len(cat), MaxOrders) }

AskBooks == BooksOf(AskCatalogue)
BidBooks == BooksOf(BidCatalogue)

\* BookSide::zeroed() / EventHeap::zeroed(): no orders, no events.
BookSideZeroed == << >>
EventHeapZeroed == << >>

EventHeaps == { << >>, << [owner |-> "m1"] >> }

\* Market: the configuration decoded by from_keyed_account.
MarketOf(bls, qls, fee, oa, ob) ==
    [ bids |-> "bids", asks |-> "asks", event_heap |-> "event_heap",
      market_base_vault |-> "base_vault", market_quote_vault |-> "quote_vault",
      market_authority |-> "market_authority",
      base_mint |-> "base_mint", quote_mint |-> "quote_mint",
      oracle_a |-> oa, oracle_b |-> ob,
      base_lot_size |-> bls, quote_lot_size |-> qls, taker_fee |-> fee,
      max_staleness_slots |-> 0 ]

FeeRates == {0, 250000}

\* Markets that differ in their oracle configuration.
OracleMarkets ==
    { MarketOf(1, 3, 0, oa, ob) :
        oa \in {NoKey, "orcA"}, ob \in {NoKey, "orcA", "orcB"} }

\* Markets that differ in lot sizes and taker fee.
LotMarkets ==
    { MarketOf(bls, qls, fee, "orcA", NoKey) :
        bls \in {1, 2}, qls \in {1, 3}, fee \in FeeRates }

(***************************************************************************)
(* openbook_v2::state::Market helpers used by the adapter.                 *)
(***************************************************************************)
\* Denominator of taker_fee.
FEES_SCALE_FACTOR == 1000000

\* Market::max_base_lots / Market::max_quote_lots: the largest lot count
\* whose native amount is representable.
max_base_lots(m) == I64_MAX \div m.base_lot_size
max_quote_lots(m) == I64_MAX \div m.quote_lot_size

\* Market::subtract_taker_fees: the quote left for matching once the taker
\* fee is set aside.
subtract_taker_fees(m, quote) ==
    (quote * FEES_SCALE_FACTOR) \div (FEES_SCALE_FACTOR + m.taker_fee)

\* Market::taker_fees_ceil: the taker fee on a matched quote amount, rounded up.
taker_fees_ceil(m, amount) == CeilDiv(amount * m.taker_fee, FEES_SCALE_FACTOR)

\* A decoded oracle feed is stale when the slot has moved past its window.
is_stale(m, feed, slot) == slot > feed.last_slot + m.max_staleness_slots

\* Market::oracle_price(oracle_a_acc, oracle_b_acc, slot) -> Result<Option<price>>.
\* An account argument is Some(blob) or None; a blob that does not decode
\* fails the derivation, a stale feed makes the price absent.
market_oracle_price(m, a_acc, b_acc, slot) ==
    LET feeds == SelectSeq(<<a_acc, b_acc>>, LAMBDA a : a.some)
        bad(a) == a.v.st # "ok"
        stale(a) == is_stale(m, a.v.v, slot)
    IN  IF \E i \in 1..Len(feeds) : bad(feeds[i])
            THEN [ok |-> FALSE, v |-> None]
        ELSE IF Len(feeds) = 0 \/ \E i \in 1..Len(feeds) : stale(feeds[i])
            THEN [ok |-> TRUE, v |-> None]
        ELSE IF Len(feeds) = 1
            THEN [ok |-> TRUE, v |-> Some(feeds[1].v.v.price)]
        ELSE [ok |-> TRUE, v |-> Some(feeds[1].v.v.price * feeds[2].v.v.price)]

(***************************************************************************)
(* crate::book: the simulated walk of the opposite book side.              *)
(***************************************************************************)
\* An order takes part in matching unless it has expired or is peg-limited
\* and the oracle price is absent or outside its band.
is_valid(o, op, now_ts) ==
    /\ ~(o.expiry > 0 /\ now_ts >= o.expiry)
    /\ o.band > 0 =>
         /\ op.some
         /\ o.price_lots - op.v <= o.band
         /\ op.v - o.price_lots <= o.band

AppendUnique(s, x) == IF \E i \in 1..Len(s) : s[i] = x THEN s ELSE Append(s, x)

\* The walk, best to worst, from order i on: rb and rq are the remaining
\* base-lot and quote-lot ceilings, makers the owners of the orders touched
\* so far, left the orders the walk leaves resting in the book it was handed.
\* It ends on a spent ceiling, on an order the ceilings cannot take whole, or
\* past the last order (exhausted).
RECURSIVE WalkFrom(_, _, _, _, _, _, _, _)
WalkFrom(orders, i, rb, rq, makers, left, op, now_ts) ==
    LET stop(exhausted) ==
            [ rem_base |-> rb, rem_quote |-> rq, makers |-> makers,
              exhausted |-> exhausted,
              left |-> left \o SubSeq(orders, i, Len(orders)) ]
    IN  IF i > Len(orders) THEN stop(TRUE)
        ELSE IF rb = 0 \/ rq = 0 THEN stop(FALSE)
        ELSE LET o == orders[i] IN
             IF ~is_valid(o, op, now_ts)
                THEN WalkFrom(orders, i + 1, rb, rq, makers, Append(left, o), op, now_ts)
             ELSE LET match_base == Min(Min(rb, o.quantity), rq \div o.price_lots)
                      match_quote == match_base * o.price_lots
                      rest == IF match_base = o.quantity THEN left
                              ELSE Append(left, [o EXCEPT !.quantity = @ - match_base])
                  IN  IF match_base = 0 THEN stop(FALSE)
                      ELSE IF match_base < o.quantity
                        THEN [ rem_base |-> rb - match_base,
                               rem_quote |-> rq - match_quote,
                               makers |-> AppendUnique(makers, o.owner),
                               exhausted |-> FALSE,
                               left |-> rest \o SubSeq(orders, i + 1, Len(orders)) ]
                      ELSE WalkFrom(orders, i + 1, rb - match_base, rq - match_quote,
                                    AppendUnique(makers, o.owner), rest, op, now_ts)

\* The book side a taker of `side` matches against.
opposing(book, side) == IF side = "Bid" THEN book.asks ELSE book.bids

\* The walk under the two ceilings; on the bid side the quote ceiling
\* includes fees, so the fee is set aside first.
iterate_book(book, side, max_base, max_quote_including_fees, m, op, now_ts) ==
    LET order_max_quote == IF side = "Bid"
                           THEN subtract_taker_fees(m, max_quote_including_fees)
                           ELSE max_quote_including_fees
        w == WalkFrom(opposing(book, side), 1, max_base, order_max_quote,
                      << >>, << >>, op, now_ts)
    IN  [ total_base_lots |-> max_base - w.rem_base,
          total_quote_lots |-> order_max_quote - w.rem_quote,
          not_enough_liquidity |-> w.exhausted /\ w.rem_base > 0 /\ w.rem_quote > 0,
          makers |-> w.makers,
          left |-> w.left ]

\* amounts_from_book: lot totals to native totals, the taker fee on the
\* matched quote, added to what a buyer pays and deducted from what a seller
\* receives.
amounts_from_book(book, side, max_base, max_quote_including_fees, m, op, now_ts) ==
    LET w == iterate_book(book, side, max_base, max_quote_including_fees, m, op, now_ts)
        base_native == w.total_base_lots * m.base_lot_size
        quote_native == w.total_quote_lots * m.quote_lot_size
        fee == taker_fees_ceil(m, quote_native)
    IN  [ total_base_taken_native |-> base_native,
          total_quote_taken_native |-> IF side = "Bid" THEN quote_native + fee
                                       ELSE quote_native - fee,
          fee |-> fee,
          not_enough_liquidity |-> w.not_enough_liquidity ]

\* remaining_accounts_to_crank: the makers the walk touched, in the order the
\* walk met them, each once.
remaining_accounts_to_crank(book, side, max_base, max_quote_including_fees, m, op, now_ts) ==
    iterate_book(book, side, max_base, max_quote_including_fees, m, op, now_ts).makers

(***************************************************************************)
(* OpenBookMarket (impl Amm).                                              *)
(***************************************************************************)
\* solana_sdk::sysvar::clock::ID
ClockID == "clock"

\* from_keyed_account: the tracked addresses, in the order they are pushed.
RelatedAccounts(m) ==
    << m.bids, m.asks, m.event_heap, m.market_base_vault, m.market_quote_vault,
       ClockID >>
    \o SelectSeq(<<m.oracle_a, m.oracle_b>>, LAMBDA k : k # NoKey)

\* get_accounts_to_update: a copy of the cached list.
get_accounts_to_update == related_accounts

\* An AccountMap entry: absent from the map, bytes that do not decode, or
\* bytes that decode to v.
Missing == [st |-> "missing"]
Bad == [st |-> "bad"]
Good(x) == [st |-> "ok", v |-> x]

ClockBlobs ==
    {Missing, Bad} \cup
    { Good([slot |-> sl, unix_timestamp |-> ts]) : sl \in 0..MaxSlot, ts \in 0..MaxTs }

OracleBlobs == { Missing, Bad, Good([price |-> 10, last_slot |-> 0]) }

\* The mutable fields of the struct, as update() sees them.
Self == [ bids |-> bids, asks |-> asks, event_heap |-> event_heap,
          oracle_price |-> oracle_price, timestamp |-> timestamp ]

\* The oracle_acc closure of update(): None for an unset key, otherwise the
\* map's entry (whose absence panics).
oracle_acc(am, key) == IF key = NoKey THEN None ELSE Some(am[key])

\* update(): the statements in order.  A panic (unwrap) or an early return
\* (?) keeps every assignment made before it.
update(self, m, am) ==
    LET out(st, s, ts) == [status |-> st, self |-> s, unix_timestamp |-> ts] IN
    IF am.bids.st # "ok" THEN out("panic", self, 0)
    ELSE LET s1 == [self EXCEPT !.bids = am.bids.v] IN
    IF am.asks.st # "ok" THEN out("panic", s1, 0)
    ELSE LET s2 == [s1 EXCEPT !.asks = am.asks.v] IN
    IF am.event_heap.st # "ok" THEN out("panic", s2, 0)
    ELSE LET s3 == [s2 EXCEPT !.event_heap = am.event_heap.v] IN
    IF am.clock.st = "missing" THEN out("panic", s3, 0)
    ELSE IF am.clock.st = "bad" THEN out("err", s3, 0)
    ELSE LET clock == am.clock.v
             a_acc == oracle_acc(am, m.oracle_a)
             b_acc == oracle_acc(am, m.oracle_b)
         IN
    IF (a_acc.some /\ a_acc.v.st = "missing") \/ (b_acc.some /\ b_acc.v.st = "missing")
        THEN out("panic", s3, clock.unix_timestamp)
    ELSE LET p == market_oracle_price(m, a_acc, b_acc, clock.slot) IN
    IF ~p.ok THEN out("err", s3, clock.unix_timestamp)
    ELSE out("ok", [s3 EXCEPT !.oracle_price = p.v], clock.unix_timestamp)

\* quote() / get_swap_and_account_metas(): the side of the taker order.
SideOf(m, input_mint) == IF input_mint = m.quote_mint THEN "Bid" ELSE "Ask"

\* The two ceilings handed to the walk.
Ceilings(m, side, input_amount) ==
    IF side = "Bid"
    THEN [ max_base_lots |-> max_base_lots(m),
           max_quote_lots_including_fees |->
               (input_amount \div m.quote_lot_size) + (input_amount % m.quote_lot_size) ]
    ELSE [ max_base_lots |-> input_amount \div m.base_lot_size,
           max_quote_lots_including_fees |-> max_quote_lots(m) ]

\* RefCell::new(self.bids) / RefCell::new(self.asks): the walk borrows a
\* copy of each side.
Orderbook(self) == [bids |-> self.bids, asks |-> self.asks]

\* BookAfterWalk, had the walk been lent the struct's own book sides.
BookAfterWalkShared(own, walked) == walked

\* What the struct's book sides hold once the walk's borrowed book is
\* dropped: the walk worked on a copy, so what it left there is discarded.
BookAfterWalk(own, walked) == own

\* InOut with the fee applied the other way round.
InOutFeeSwapped(side, a) ==
    IF side = "Bid"
    THEN [ in_amount |-> a.total_quote_taken_native + a.fee,
           out_amount |-> a.total_base_taken_native ]
    ELSE [ in_amount |-> a.total_base_taken_native,
           out_amount |-> a.total_quote_taken_native - a.fee ]

\* The Amounts -> (in_amount, out_amount) mapping of quote().
InOut(side, a) ==
    IF side = "Bid"
    THEN [ in_amount |-> a.total_quote_taken_native - a.fee,
           out_amount |-> a.total_base_taken_native ]
    ELSE [ in_amount |-> a.total_base_taken_native,
           out_amount |-> a.total_quote_taken_native + a.fee ]

\* QuoteAmounts with the ceilings handed over in native units, not lots.
QuoteAmountsNative(self, m, side, c) ==
    amounts_from_book(Orderbook(self), side, c.max_base_lots * m.base_lot_size,
                      c.max_quote_lots_including_fees * m.quote_lot_size, m,
                      self.oracle_price, self.timestamp)

\* amounts_from_book as quote() calls it.
QuoteAmounts(self, m, side, c) ==
    amounts_from_book(Orderbook(self), side, c.max_base_lots,
                      c.max_quote_lots_including_fees, m, self.oracle_price,
                      self.timestamp)

\* QuoteFields with the liquidity flag left to Quote::default().
QuoteFieldsDefaultFlag(m, io, order_amounts) ==
    [ in_amount |-> io.in_amount,
      out_amount |-> io.out_amount,
      fee_mint |-> m.quote_mint,
      fee_amount |-> order_amounts.fee,
      not_enough_liquidity |-> FALSE ]

\* Ok(Quote { .. , ..Quote::default() }): the fields quote() sets.
QuoteFields(m, io, order_amounts) ==
    [ in_amount |-> io.in_amount,
      out_amount |-> io.out_amount,
      fee_mint |-> m.quote_mint,
      fee_amount |-> order_amounts.fee,
      not_enough_liquidity |-> order_amounts.not_enough_liquidity ]

\* quote(quote_params) -> Result<Quote>, with the values it computed on the way.
quote(self, m, params) ==
    LET side == SideOf(m, params.input_mint)
        input_amount == I64TryFrom(params.in_amount)
    IN  IF ~input_amount.ok
        THEN [op |-> "quote", status |-> "err", params |-> params]
        ELSE LET c == Ceilings(m, side, input_amount.v)
                 order_amounts == QuoteAmounts(self, m, side, c)
             IN  [ op |-> "quote", status |-> "ok", params |-> params,
                   side |-> side, ceilings |-> c, amounts |-> order_amounts,
                   now_ts |-> self.timestamp,
                   quote |-> QuoteFields(m, InOut(side, order_amounts),
                                         order_amounts) ]

\* What the walk leaves in the book it borrowed: the opposing side without
\* the matched quantity, the taker's own side as it was.
WalkedBook(self, m, side, c) ==
    LET left == iterate_book(Orderbook(self), side, c.max_base_lots,
                             c.max_quote_lots_including_fees, m,
                             self.oracle_price, self.timestamp).left
    IN  IF side = "Bid" THEN [bids |-> self.bids, asks |-> left]
        ELSE [bids |-> left, asks |-> self.asks]

\* AccountMeta
AccountMeta(k, signer, writable) ==
    [pubkey |-> k, is_signer |-> signer, is_writable |-> writable]

\* openbook_v2::id(), which stands in for an optional account that is None.
ProgramID == "openbook_v2"

\* self.key
MarketKey == "market"

\* PlaceTakeOrder { .. }.to_account_metas(None): one meta per field.
PlaceTakeOrderMetas(m, authority, user_base_account, user_quote_account) ==
    LET opt(k) == IF k = NoKey THEN AccountMeta(ProgramID, FALSE, FALSE)
                  ELSE AccountMeta(k, FALSE, FALSE)
    IN  << AccountMeta(authority, TRUE, TRUE),
           AccountMeta(authority, TRUE, TRUE),
           AccountMeta(MarketKey, FALSE, TRUE),
           AccountMeta(m.market_authority, FALSE, FALSE),
           AccountMeta(m.bids, FALSE, TRUE),
           AccountMeta(m.asks, FALSE, TRUE),
           AccountMeta(user_base_account, FALSE, TRUE),
           AccountMeta(user_quote_account, FALSE, TRUE),
           AccountMeta(m.market_base_vault, FALSE, TRUE),
           AccountMeta(m.market_quote_vault, FALSE, TRUE),
           AccountMeta(m.event_heap, FALSE, TRUE),
           opt(m.oracle_a),
           opt(m.oracle_b),
           AccountMeta("token_program", FALSE, FALSE),
           AccountMeta("system_program", FALSE, FALSE),
           AccountMeta(ProgramID, FALSE, FALSE) >>

\* remainigs.iter().map(|&pubkey| AccountMeta::new(pubkey, false)): writable,
\* not a signer, in the order given.
RemainingMetas(remainigs) ==
    [i \in 1..Len(remainigs) |-> AccountMeta(remainigs[i], FALSE, TRUE)]

\* remaining_accounts_to_crank as get_swap_and_account_metas() calls it.
SwapRemainings(self, m, side, c) ==
    remaining_accounts_to_crank(Orderbook(self), side, c.max_base_lots,
                                c.max_quote_lots_including_fees, m,
                                self.oracle_price, self.timestamp)

\* ExtendMetas with the remaining accounts put first.
ExtendMetasFirst(fixed, remaining) == remaining \o fixed

\* account_metas.extend(remainigs_accounts)
ExtendMetas(fixed, remaining) == fixed \o remaining

\* get_swap_and_account_metas(swap_params) -> Result<SwapAndAccountMetas>,
\* with the values it computed on the way.
get_swap_and_account_metas(self, m, params) ==
    LET source_is_quote == params.source_mint = m.quote_mint
        side == IF source_is_quote THEN "Bid" ELSE "Ask"
        user_quote_account == IF source_is_quote
                              THEN params.user_source_token_account
                              ELSE params.user_destination_token_account
        user_base_account == IF source_is_quote
                             THEN params.user_destination_token_account
                             ELSE params.user_source_token_account
        fixed == PlaceTakeOrderMetas(m, params.user_transfer_authority,
                                     user_base_account, user_quote_account)
        input_amount == I64TryFrom(params.in_amount)
    IN  IF ~input_amount.ok
        THEN [op |-> "get_swap_and_account_metas", status |-> "err", params |-> params]
        ELSE LET c == Ceilings(m, side, input_amount.v)
                 remainigs == SwapRemainings(self, m, side, c)
             IN  [ op |-> "get_swap_and_account_metas", status |-> "ok",
                   params |-> params, side |-> side, ceilings |-> c,
                   now_ts |-> self.timestamp,
                   fixed |-> fixed, remainigs |-> remainigs,
                   swap |-> [side |-> side],
                   account_metas |-> ExtendMetas(fixed, RemainingMetas(remainigs)) ]

(***************************************************************************)
(* Inputs of the calls.                                                    *)
(***************************************************************************)
Mints == {"base_mint", "quote_mint"}

\* Requested amounts; the last one does not fit an i64.
InAmounts == { U64(0, 0), U64(0, 5), U64(0, 50), U64(1, 0) }

QuoteParams == [input_mint : Mints, in_amount : InAmounts]

SwapParams ==
    [ source_mint : Mints, in_amount : InAmounts,
      user_source_token_account : {"user_source"},
      user_destination_token_account : {"user_destination"},
      user_transfer_authority : {"user_authority"} ]

\* The calls a refresh-heavy run makes between refreshes.
FewQuoteParams == { p \in QuoteParams : p.in_amount = U64(0, 5) }
FewSwapParams == { p \in SwapParams : p.in_amount = U64(0, 5) }

\* Book sides, event heaps and maps a refresh-heavy run is fed.
LedgerBids == { << >>, << BidCatalogue[1] >> }
LedgerAsks == { << AskCatalogue[1] >>, << AskCatalogue[1], AskCatalogue[3] >> }

Faults(am) == { k \in DOMAIN am : am[k].st # "ok" }

\* The maps update() is handed in a refresh-heavy run: at most one entry
\* missing or undecodable.
LedgerMaps ==
    { am \in [ bids : {Missing, Bad} \cup { Good(b) : b \in LedgerBids },
               asks : {Missing, Bad} \cup { Good(b) : b \in LedgerAsks },
               event_heap : {Missing, Bad} \cup { Good(h) : h \in EventHeaps },
               clock : ClockBlobs,
               orcA : OracleBlobs,
               orcB : OracleBlobs ] :
        Cardinality(Faults(am)) <= 1 }

(***************************************************************************)
(* The state machine.                                                      *)
(***************************************************************************)
NoQuote == [set |-> FALSE]

\* from_keyed_account(keyed_account) for a market account that decodes to m.
from_keyed_account(m) ==
    /\ market = m
    /\ related_accounts = RelatedAccounts(m)
    /\ event_heap = EventHeapZeroed
    /\ bids = BookSideZeroed
    /\ asks = BookSideZeroed
    /\ oracle_price = None
    /\ timestamp = 0
    /\ ret = [op |-> "from_keyed_account", status |-> "ok"]
    /\ first_quote = NoQuote

Init == \E m \in OracleMarkets : from_keyed_account(m)

\* A panic ends the use of the object.
Usable == ret.status # "panic"

UpdateWith(am) ==
    LET r == update(Self, market, am) IN
    /\ Usable
    /\ bids' = r.self.bids
    /\ asks' = r.self.asks
    /\ event_heap' = r.self.event_heap
    /\ oracle_price' = r.self.oracle_price
    /\ timestamp' = r.self.timestamp
    /\ ret' = [op |-> "update", status |-> r.status,
               unix_timestamp |-> r.unix_timestamp]
    /\ first_quote' = NoQuote
    /\ UNCHANGED <<market, related_accounts>>

QuoteWith(p) ==
    LET r == quote(Self, market, p)
        walked == IF r.status = "ok"
                  THEN WalkedBook(Self, market, r.side, r.ceilings)
                  ELSE Orderbook(Self)
    IN
    /\ Usable
    /\ ret' = r
    /\ bids' = BookAfterWalk(bids, walked.bids)
    /\ asks' = BookAfterWalk(asks, walked.asks)
    /\ first_quote' = IF first_quote.set THEN first_quote
                      ELSE [set |-> TRUE, ret |-> r]
    /\ UNCHANGED <<market, related_accounts, event_heap, oracle_price, timestamp>>

SwapWith(p) ==
    LET r == get_swap_and_account_metas(Self, market, p)
        walked == IF r.status = "ok"
                  THEN WalkedBook(Self, market, r.side, r.ceilings)
                  ELSE Orderbook(Self)
    IN
    /\ Usable
    /\ ret' = r
    /\ bids' = BookAfterWalk(bids, walked.bids)
    /\ asks' = BookAfterWalk(asks, walked.asks)
    /\ UNCHANGED <<market, related_accounts, event_heap, oracle_price, timestamp,
                   first_quote>>

\* The adapter's life: created, then refreshed, quoted and asked for swap
\* accounts in any order.
Update == \E am \in LedgerMaps : UpdateWith(am)
Quote == \E p \in FewQuoteParams : QuoteWith(p)
GetSwap == \E p \in FewSwapParams : SwapWith(p)

Next == Update \/ Quote \/ GetSwap

Spec == Init /\ [][Next]_vars

\* Quoting over a refreshed snapshot: every market configuration, book and
\* oracle price a successful refresh can leave, then quote and swap calls only.
Refreshed ==
    /\ market \in LotMarkets
    /\ related_accounts = RelatedAccounts(market)
    /\ bids \in BidBooks
    /\ asks \in AskBooks
    /\ event_heap = << [owner |-> "m1"] >>
    /\ oracle_price \in {None, Some(10)}
    /\ timestamp = 0
    /\ ret = [op |-> "update", status |-> "ok", unix_timestamp |-> 0]
    /\ first_quote = NoQuote

QuoteAny == \E p \in QuoteParams : QuoteWith(p)
GetSwapAny == \E p \in SwapParams : SwapWith(p)

NextQuote == QuoteAny \/ GetSwapAny

SpecQuote == Refreshed /\ [][NextQuote]_vars

(***************************************************************************)
(* Properties.                                                             *)
(***************************************************************************)
QuoteOk == ret.op = "quote" /\ ret.status = "ok"
SwapOk == ret.op = "get_swap_and_account_metas" /\ ret.status = "ok"

\* The orders of a book side that take part in matching now.
ValidOrders(orders) ==
    SelectSeq(orders, LAMBDA o : is_valid(o, oracle_price, timestamp))

RECURSIVE SumQuantity(_)
SumQuantity(orders) ==
    IF orders = << >> THEN 0 ELSE Head(orders).quantity + SumQuantity(Tail(orders))

\* C1: a refresh that fails, for whatever reason, leaves bids, asks, event
\* heap, oracle price and timestamp exactly as they were before the call.
C1_RefreshAllOrNothing ==
    [][ (ret'.op = "update" /\ ret'.status # "ok") =>
            /\ bids' = bids
            /\ asks' = asks
            /\ event_heap' = event_heap
            /\ oracle_price' = oracle_price
            /\ timestamp' = timestamp ]_vars

\* C2: on the bid side the quote-lot ceiling is the input divided by
\* quote_lot_size rounded up (one extra lot when there is a remainder) and the
\* base-lot ceiling is the market's maximum; on the ask side the base-lot
\* ceiling is the floor of input / base_lot_size and the quote-lot ceiling is
\* the market's maximum.
C2_CeilingsRoundUp ==
    (QuoteOk \/ SwapOk) =>
        LET input == ret.params.in_amount.lo
            c == ret.ceilings
        IN  IF ret.side = "Bid"
            THEN /\ c.max_quote_lots_including_fees =
                        (input \div market.quote_lot_size)
                        + (IF input % market.quote_lot_size # 0 THEN 1 ELSE 0)
                 /\ c.max_base_lots = max_base_lots(market)
            ELSE /\ c.max_base_lots = input \div market.base_lot_size
                 /\ c.max_quote_lots_including_fees = max_quote_lots(market)

\* C3: the walk quote() runs never fills more base than the base-lot ceiling
\* nor more quote, fees included, than the quote-lot ceiling it was given.
C3_WalkWithinCeilings ==
    QuoteOk =>
        LET a == ret.amounts
            c == ret.ceilings
            quote_with_fees == IF ret.side = "Bid" THEN a.total_quote_taken_native
                               ELSE a.total_quote_taken_native + a.fee
        IN  /\ a.total_base_taken_native <= c.max_base_lots * market.base_lot_size
            /\ quote_with_fees <= c.max_quote_lots_including_fees * market.quote_lot_size

C3_Witness ==
    /\ QuoteOk
    /\ ret.side = "Ask"
    /\ ret.ceilings.max_base_lots > 0
    /\ ret.amounts.total_base_taken_native =
           ret.ceilings.max_base_lots * market.base_lot_size
    /\ ~ret.amounts.not_enough_liquidity
    /\ SumQuantity(ValidOrders(bids)) > ret.ceilings.max_base_lots

\* C4: the Quote is the Amounts remapped by side: buying base, in = quote
\* taken - fee and out = base taken; selling base, in = base taken and
\* out = quote taken + fee; fee, fee mint and the liquidity flag are carried
\* over.
C4_QuoteFromAmounts ==
    QuoteOk =>
        LET a == ret.amounts
            q == ret.quote
            buying == ret.params.input_mint = market.quote_mint
        IN  /\ buying =>
                 /\ q.in_amount = a.total_quote_taken_native - a.fee
                 /\ q.out_amount = a.total_base_taken_native
            /\ ~buying =>
                 /\ q.in_amount = a.total_base_taken_native
                 /\ q.out_amount = a.total_quote_taken_native + a.fee
            /\ q.fee_amount = a.fee
            /\ q.fee_mint = market.quote_mint
            /\ q.not_enough_liquidity = a.not_enough_liquidity

C4_Witness ==
    /\ QuoteOk
    /\ ret.params.input_mint = market.quote_mint
    /\ ret.amounts.fee > 0
    /\ ret.quote.out_amount > 0
    /\ ret.quote.in_amount = ret.amounts.total_quote_taken_native - ret.amounts.fee

C6_TrackedAddresses ==
    LET l == get_accounts_to_update
        oracles == SubSeq(l, 7, Len(l))
    IN  /\ Len(l) >= 6
        /\ SubSeq(l, 1, 6) = << market.bids, market.asks, market.event_heap,
                                market.market_base_vault,
                                market.market_quote_vault, ClockID >>
        /\ { oracles[i] : i \in 1..Len(oracles) }
               = {market.oracle_a, market.oracle_b} \ {NoKey}
        /\ \A k \in OracleKeys :
               Cardinality({ i \in 1..Len(l) : l[i] = k }) <= 1

\* C7: quote() and get_swap_and_account_metas() leave the market view as it
\* was, and a quote repeated with the same parameters after any such calls
\* returns what the first one returned.
C7_QuoteReadOnly ==
    [][ /\ ret'.op \in {"quote", "get_swap_and_account_metas"} => view' = view
        /\ ( /\ ret'.op = "quote"
             /\ first_quote.set
             /\ first_quote.ret.params = ret'.params ) => ret' = first_quote.ret
      ]_vars

C7_Witness ==
    /\ QuoteOk
    /\ first_quote.set
    /\ first_quote.ret = ret
    /\ ret.amounts.total_base_taken_native > 0
    /\ ret.amounts.total_quote_taken_native > 0

\* Position of the first order of a maker in a book side (0: none).
FirstOrderOf(orders, owner) ==
    IF \E i \in 1..Len(orders) : orders[i].owner = owner
    THEN CHOOSE i \in 1..Len(orders) :
            /\ orders[i].owner = owner
            /\ \A j \in 1..(i - 1) : orders[j].owner # owner
    ELSE 0

\* C8: the account list is the settlement instruction's fixed accounts
\* followed by the makers the walk found, in the order the walk met them,
\* each writable and not a signer, none listed twice.
C8_SwapAccountList ==
    SwapOk =>
        LET metas == ret.account_metas
            p == ret.params
            buying == p.source_mint = market.quote_mint
            user_base == IF buying THEN p.user_destination_token_account
                         ELSE p.user_source_token_account
            user_quote == IF buying THEN p.user_source_token_account
                          ELSE p.user_destination_token_account
            fixed == PlaceTakeOrderMetas(market, p.user_transfer_authority,
                                         user_base, user_quote)
            n == Len(fixed)
            tail == SubSeq(metas, n + 1, Len(metas))
            book == ValidOrders(IF buying THEN asks ELSE bids)
            filled == QuoteAmounts(Self, market, ret.side, ret.ceilings)
        IN  /\ Len(metas) >= n
            /\ SubSeq(metas, 1, n) = fixed
            /\ fixed[1].pubkey = p.user_transfer_authority /\ fixed[1].is_signer
            /\ \A i \in 1..Len(tail) :
                   /\ tail[i].is_writable /\ ~tail[i].is_signer
                   /\ FirstOrderOf(book, tail[i].pubkey) > 0
            /\ \A i, j \in 1..Len(tail) :
                   i < j => FirstOrderOf(book, tail[i].pubkey)
                              < FirstOrderOf(book, tail[j].pubkey)
            /\ (Len(tail) > 0) <=> (filled.total_base_taken_native > 0)

C8_Witness ==
    /\ SwapOk
    /\ Len(ret.remainigs) = 1
    /\ Len(ValidOrders(asks)) = 2
    /\ ValidOrders(asks)[1].owner = ValidOrders(asks)[2].owner
    /\ ret.ceilings.max_quote_lots_including_fees >= 50
    /\ ret.side = "Bid"
    /\ Len(ret.account_metas) = Len(ret.fixed) + 1

\* C9: after a successful refresh the timestamp handed to the walk is the
\* clock account's timestamp.
C9_TimestampFromClock ==
    (ret.op = "update" /\ ret.status = "ok") => timestamp = ret.unix_timestamp

\* C10: the in_amount of a Quote never exceeds the requested in_amount.
C10_ExactInputBound ==
    QuoteOk => ret.quote.in_amount <= ret.params.in_amount.lo

====
